---- MODULE Spec2Model ----
(***************************************************************************)
(* Model of BackgroundManager (background_fix.py): a per-user mode table   *)
(* ("real-time" / "background") mirrored to a JSON file.                   *)
(*                                                                         *)
(* Python strings are modelled as sequences of one-character strings, so   *)
(* that str.strip() and str.lower() are computed character by character.   *)
(* The backing file is modelled by its content: absent, a JSON object (a   *)
(* set of key/value members), JSON that is not an object, or text that     *)
(* does not parse.                                                         *)
(***************************************************************************)
EXTENDS Integers, Sequences, FiniteSets, TLC

\* ---------------------------------------------------------------- bounds
\* number of users ("42", "43", ...)
NumUsers == 2
\* number of writes in a row that an instance sees fail
MaxFaults == 1
\* longest run of whitespace put before / after a mode argument
MaxPad == 1

\* ------------------------------------------------------- Python strings
\* The alphabet is the ASCII letters, the digits, "-" and three whitespace
\* characters.
UPPERCASE == <<"A","B","C","D","E","F","G","H","I","J","K","L","M",
               "N","O","P","Q","R","S","T","U","V","W","X","Y","Z">>
LOWERCASE == <<"a","b","c","d","e","f","g","h","i","j","k","l","m",
               "n","o","p","q","r","s","t","u","v","w","x","y","z">>
DIGITS == <<"0","1","2","3","4","5","6","7","8","9">>
WHITESPACE == <<" ", "\t", "\n">>

\* str.isspace() of one character
IsSpace(c) == c = " " \/ c = "\t" \/ c = "\n"

\* the lower-case form of each upper-case letter
CaseTable ==
    [c \in {UPPERCASE[i] : i \in 1..Len(UPPERCASE)} |->
        LOWERCASE[CHOOSE i \in 1..Len(UPPERCASE) : UPPERCASE[i] = c]]
lower_char(c) == IF c \in DOMAIN CaseTable THEN CaseTable[c] ELSE c

\* the upper-case form of one character, to build arguments with
upper_char(c) ==
    IF \E i \in 1..Len(LOWERCASE) : LOWERCASE[i] = c
    THEN UPPERCASE[CHOOSE i \in 1..Len(LOWERCASE) : LOWERCASE[i] = c]
    ELSE c

\* str.lower()
lower(s) == [i \in 1..Len(s) |-> lower_char(s[i])]

\* str.strip(): what lies between the first and the last character that is
\* not whitespace
strip(s) ==
    LET kept == {i \in 1..Len(s) : ~IsSpace(s[i])}
    IN  IF kept = {} THEN <<>>
        ELSE SubSeq(s, CHOOSE i \in kept : \A j \in kept : i <= j,
                       CHOOSE i \in kept : \A j \in kept : i >= j)

\* str(n) for a non-negative int
RECURSIVE str_int(_)
str_int(n) ==
    IF n < 10 THEN <<DIGITS[n + 1]>>
    ELSE str_int(n \div 10) \o <<DIGITS[(n % 10) + 1]>>


\* ------------------------------------------------------------ constants
REAL_TIME == <<"r","e","a","l","-","t","i","m","e">>
DEFAULT_MODE == <<"b","a","c","k","g","r","o","u","n","d">>
VALID_MODES == {REAL_TIME, DEFAULT_MODE}

\* ------------------------------------------------------------- inputs
IntIds == 42..(42 + NumUsers - 1)
\* the users "42", "43", ... and the first of them also as the int 42
UserIds ==
    {[isInt |-> FALSE, n |-> 0, s |-> str_int(i)] : i \in IntIds} \cup
    {[isInt |-> TRUE, n |-> 42, s |-> <<>>]}
\* str(user_id): a user id is passed as a str or, as a bot does with the ids
\* it receives, as an int; tabulated once for the ids the methods are called with
str_of == [u \in UserIds |-> IF u.isInt THEN str_int(u.n) ELSE u.s]
str(uid) == str_of[uid]
Keys == {str(u) : u \in UserIds}

\* mode arguments: a word, in some letter case, between runs of whitespace
Pad(n, first) == [i \in 1..n |-> WHITESPACE[((i + first) % Len(WHITESPACE)) + 1]]
Cased(style, w) ==
    CASE style = "lower" -> w
      [] style = "mixed" -> [i \in 1..Len(w) |->
                               IF i % 2 = 1 THEN upper_char(w[i]) ELSE w[i]]
ModeWords ==
    {REAL_TIME, DEFAULT_MODE,
     <<"r","e","a","l"," ","t","i","m","e">>}
\* <<whitespace before, letter case, whitespace after>>
Decorations == {<<0, "lower", 0>>, <<MaxPad, "mixed", MaxPad>>}
ModeArgs ==
    {Pad(d[1], 0) \o Cased(d[2], w) \o Pad(d[3], 1) :
        d \in Decorations, w \in ModeWords}

\* mode.strip().lower(), tabulated once for the strings set_mode is called with
normalized == [m \in ModeArgs \cup VALID_MODES |-> lower(strip(m))]

\* ------------------------------------------------------ the backing file
\* json.dump of a dict: the members of the JSON object
json_dump(d) == {<<k, d[k]>> : k \in DOMAIN d}
\* json.load of a JSON object: the dict of its members
json_load(members) ==
    [k \in {m[1] : m \in members} |-> (CHOOSE m \in members : m[1] = k)[2]]

NoFile == [kind |-> "absent", members |-> {}]
ObjectFile(d) == [kind |-> "object", members |-> json_dump(d)]
\* JSON that parses to a list / to a scalar
ListFile == [kind |-> "list", members |-> {}]
ScalarFile == [kind |-> "scalar", members |-> {}]
\* text that is not JSON
GarbageFile == [kind |-> "garbage", members |-> {}]
\* what open(path, "w") leaves when the dump after it fails
TruncatedFile == [kind |-> "truncated", members |-> {}]

\* a value an edited or damaged file may hold for a user
STALE_MODE == <<"R","E","A","L","-","T","I","M","E">>
\* the tables a file may hold when the program starts: any table of modes,
\* and the same with the entry of user "42" damaged
Tables == UNION {[ks -> VALID_MODES] : ks \in SUBSET Keys}
StaleTables ==
    {[k \in DOMAIN d |-> IF k = str_int(42) THEN STALE_MODE ELSE d[k]] :
        d \in {t \in Tables : str_int(42) \in DOMAIN t}}
InitialFiles ==
    {NoFile, ListFile, ScalarFile, GarbageFile} \cup
    {ObjectFile(d) : d \in Tables \cup StaleTables}

EmptyDict == [k \in {} |-> <<>>]

\* how a call of _persist can end: the file is written; open() fails and the
\* file stays as it was; open() truncates the file and the dump then fails
PersistOutcomes == {"ok", "open_failed", "write_failed"}

\* ---------------------------------------------------------------- state
VARIABLES
    file,          \* content of the file at storage_path
    prefs,         \* self._prefs of the live instance
    alive,         \* TRUE once a constructor has returned an instance
    last,          \* the last call: what was passed, returned or raised
    touched,       \* keys written by set_mode / toggle on this instance
    loadedKeys,    \* keys this instance took from the file when it was built
    failedWrites,  \* the last writes of this instance that raised, in a row
    badLoad        \* the unusable file content this instance was built on

vars == <<file, prefs, alive, last, touched, loadedKeys, failedWrites, badLoad>>

\* the last _persist of this instance raised
writeFailed == failedWrites > 0

NoString == <<>>
\* a call: the method, str(user_id), the mode argument, get_mode(user_id)
\* before the call, the value returned, the exception raised, and for a
\* constructor the kind of file it found.  Two fields place a toggle in the
\* history: nth is 1 for a toggle that is the first call on a store built on
\* a missing file and 2 for a toggle that directly follows such a one (0
\* otherwise), and orig is, for a toggle that directly follows a toggle of
\* the same user, the mode before that earlier toggle.
Call(op, key, arg, before, value, raised, seen) ==
    [op |-> op, key |-> key, arg |-> arg, before |-> before,
     value |-> value, raised |-> raised, seen |-> seen,
     nth |-> IF op # "toggle" THEN 0
             ELSE IF last.op = "__init__" /\ last.seen = "absent" THEN 1
             ELSE IF last.nth = 1 THEN 2 ELSE 0,
     orig |-> IF op = "toggle" /\ last.op = "toggle" /\ last.key = key
              THEN last.before ELSE NoString]
NoBadLoad == [set |-> FALSE, file |-> NoFile, attempts |-> 0]

\* ------------------------------------------------------------- methods
\* _persist: open(storage_path, "w") and json.dump(self._prefs)
_persist(p, f, outcome) ==
    CASE outcome = "ok" -> [file |-> ObjectFile(p), raised |-> ""]
      [] outcome = "open_failed" -> [file |-> f, raised |-> "OSError"]
      [] outcome = "write_failed" -> [file |-> TruncatedFile, raised |-> "OSError"]

\* _load that rewrites a file it could not use
_load_repairs(f, outcome) ==
    IF f.kind = "object"
    THEN [prefs |-> json_load(f.members), file |-> f, raised |-> ""]
    ELSE LET w == _persist(EmptyDict, f, outcome)
         IN  [prefs |-> EmptyDict, file |-> w.file, raised |-> w.raised]

\* _load that does not create a missing file
_load_creates_nothing(f, outcome) ==
    [prefs |-> IF f.kind = "object" THEN json_load(f.members) ELSE EmptyDict,
     file |-> f, raised |-> ""]

\* _load: the table and the file after it, and what it raised
_load(f, outcome) ==
    IF f.kind # "absent"
    THEN [prefs |-> IF f.kind = "object" THEN json_load(f.members) ELSE EmptyDict,
          file |-> f, raised |-> ""]
    ELSE LET w == _persist(EmptyDict, f, outcome)
         IN  [prefs |-> EmptyDict, file |-> w.file, raised |-> w.raised]

\* get_mode with the other default
get_mode_default_real_time(p, uid) ==
    IF str(uid) \in DOMAIN p THEN p[str(uid)] ELSE REAL_TIME

\* get_mode
get_mode(p, uid) ==
    IF str(uid) \in DOMAIN p THEN p[str(uid)] ELSE DEFAULT_MODE

\* set_mode that validates the normalized mode but stores the argument
set_mode_stores_argument(p, f, uid, mode, outcome) ==
    LET m == normalized[mode]
        key == str(uid)
    IN  IF m \notin VALID_MODES
        THEN [prefs |-> p, file |-> f, raised |-> "ValueError", wrote |-> FALSE]
        ELSE LET q == [k \in DOMAIN p \cup {key} |-> IF k = key THEN mode ELSE p[k]]
                 w == _persist(q, f, outcome)
             IN  [prefs |-> q, file |-> w.file, raised |-> w.raised, wrote |-> TRUE]

\* set_mode that lowers the mode but does not strip it, and does not validate
set_mode_no_validation(p, f, uid, mode, outcome) ==
    LET m == lower(mode)
        key == str(uid)
        q == [k \in DOMAIN p \cup {key} |-> IF k = key THEN m ELSE p[k]]
        w == _persist(q, f, outcome)
    IN  [prefs |-> q, file |-> w.file, raised |-> w.raised, wrote |-> TRUE]

\* set_mode that stores the mode before it validates it
set_mode_stores_first(p, f, uid, mode, outcome) ==
    LET m == normalized[mode]
        key == str(uid)
        q == [k \in DOMAIN p \cup {key} |-> IF k = key THEN m ELSE p[k]]
    IN  IF m \notin VALID_MODES
        THEN [prefs |-> q, file |-> f, raised |-> "ValueError", wrote |-> FALSE]
        ELSE LET w == _persist(q, f, outcome)
             IN  [prefs |-> q, file |-> w.file, raised |-> w.raised, wrote |-> TRUE]

\* set_mode that writes the file before it updates the table
set_mode_persists_first(p, f, uid, mode, outcome) ==
    LET m == normalized[mode]
        key == str(uid)
    IN  IF m \notin VALID_MODES
        THEN [prefs |-> p, file |-> f, raised |-> "ValueError", wrote |-> FALSE]
        ELSE LET q == [k \in DOMAIN p \cup {key} |-> IF k = key THEN m ELSE p[k]]
                 w == _persist(p, f, outcome)
             IN  [prefs |-> q, file |-> w.file, raised |-> w.raised, wrote |-> TRUE]

\* set_mode that puts the old table back when the write fails
set_mode_rolls_back(p, f, uid, mode, outcome) ==
    LET m == normalized[mode]
        key == str(uid)
    IN  IF m \notin VALID_MODES
        THEN [prefs |-> p, file |-> f, raised |-> "ValueError", wrote |-> FALSE]
        ELSE LET q == [k \in DOMAIN p \cup {key} |-> IF k = key THEN m ELSE p[k]]
                 w == _persist(q, f, outcome)
             IN  [prefs |-> IF w.raised = "" THEN q ELSE p,
                  file |-> w.file, raised |-> w.raised, wrote |-> TRUE]

\* set_mode: the table and the file after it, and what it raised
set_mode(p, f, uid, mode, outcome) ==
    LET m == normalized[mode]
        key == str(uid)
    IN  IF m \notin VALID_MODES
        THEN [prefs |-> p, file |-> f, raised |-> "ValueError", wrote |-> FALSE]
        ELSE LET q == [k \in DOMAIN p \cup {key} |-> IF k = key THEN m ELSE p[k]]
                 w == _persist(q, f, outcome)
             IN  [prefs |-> q, file |-> w.file, raised |-> w.raised, wrote |-> TRUE]

\* toggle that always switches to real-time
toggle_to_real_time(p, f, uid, outcome) ==
    LET r == set_mode(p, f, uid, REAL_TIME, outcome)
    IN  [prefs |-> r.prefs, file |-> r.file, raised |-> r.raised,
         wrote |-> r.wrote, value |-> REAL_TIME]

\* toggle that returns the mode it read
toggle_returns_current(p, f, uid, outcome) ==
    LET current == get_mode(p, uid)
        new_mode == IF current = DEFAULT_MODE THEN REAL_TIME ELSE DEFAULT_MODE
        r == set_mode(p, f, uid, new_mode, outcome)
    IN  [prefs |-> r.prefs, file |-> r.file, raised |-> r.raised,
         wrote |-> r.wrote, value |-> current]

\* toggle: as set_mode, with the mode it returns
toggle(p, f, uid, outcome) ==
    LET current == get_mode(p, uid)
        new_mode == IF current = DEFAULT_MODE THEN REAL_TIME ELSE DEFAULT_MODE
        r == set_mode(p, f, uid, new_mode, outcome)
    IN  [prefs |-> r.prefs, file |-> r.file, raised |-> r.raised,
         wrote |-> r.wrote, value |-> new_mode]

\* ------------------------------------------------------------- actions
Init ==
    /\ file \in InitialFiles
    /\ prefs = EmptyDict
    /\ alive = FALSE
    /\ last = [op |-> "none", key |-> NoString, arg |-> NoString,
               before |-> NoString, value |-> NoString, raised |-> "",
               seen |-> "", nth |-> 0, orig |-> NoString]
    /\ touched = {}
    /\ loadedKeys = {}
    /\ failedWrites = 0
    /\ badLoad = NoBadLoad

\* BackgroundManager(storage_path): a new instance replaces the live one
Construct(outcome) ==
    LET r == _load(file, outcome)
    IN  /\ outcome # "ok" => r.raised # ""
        /\ file' = r.file
        /\ alive' = (r.raised = "")
        /\ prefs' = IF r.raised = "" THEN r.prefs ELSE EmptyDict
        /\ last' = Call("__init__", NoString, NoString, NoString, NoString,
                        r.raised, file.kind)
        /\ touched' = {}
        /\ loadedKeys' = IF r.raised = "" THEN DOMAIN r.prefs ELSE {}
        /\ failedWrites' = 0
        /\ badLoad' = IF file.kind \notin {"absent", "object"}
                      THEN [set |-> TRUE, file |-> file, attempts |-> 0]
                      ELSE NoBadLoad

GetMode(uid) ==
    /\ alive
    /\ last' = Call("get_mode", str(uid), NoString, get_mode(prefs, uid),
                    get_mode(prefs, uid), "", "")
    /\ UNCHANGED <<file, prefs, alive, touched, loadedKeys, failedWrites, badLoad>>

\* the bookkeeping shared by the two calls that write
Written(r, uid) ==
    /\ prefs' = r.prefs
    /\ file' = r.file
    /\ touched' = IF r.wrote THEN touched \cup {str(uid)} ELSE touched
    /\ failedWrites' = IF ~r.wrote THEN failedWrites
                       ELSE IF r.raised # "" THEN failedWrites + 1 ELSE 0
    /\ badLoad' = IF r.wrote /\ r.raised = "" THEN NoBadLoad
                  ELSE IF r.wrote /\ badLoad.set
                       THEN [badLoad EXCEPT !.attempts = 1]
                       ELSE badLoad
    /\ UNCHANGED <<alive, loadedKeys>>

SetMode(uid, mode, outcome) ==
    /\ alive
    /\ LET r == set_mode(prefs, file, uid, mode, outcome)
       IN  /\ outcome # "ok" => r.raised = "OSError" /\ failedWrites < MaxFaults
           /\ Written(r, uid)
           /\ last' = Call("set_mode", str(uid), mode, NoString,
                           NoString, r.raised, "")

Toggle(uid, outcome) ==
    /\ alive
    /\ LET r == toggle(prefs, file, uid, outcome)
       IN  /\ outcome # "ok" => failedWrites < MaxFaults
           /\ Written(r, uid)
           /\ last' = Call("toggle", str(uid), NoString, get_mode(prefs, uid),
                           IF r.raised = "" THEN r.value ELSE NoString,
                           r.raised, "")

Next ==
    \/ \E o \in PersistOutcomes : Construct(o)
    \/ \E u \in UserIds : GetMode(u)
    \/ \E u \in UserIds, m \in ModeArgs, o \in PersistOutcomes : SetMode(u, m, o)
    \/ \E u \in UserIds, o \in PersistOutcomes : Toggle(u, o)

Spec == Init /\ [][Next]_vars

\* ------------------------------------------------------------ properties
\* the user id that is the key itself
User(key) == [isInt |-> FALSE, n |-> 0, s |-> key]
\* what the live instance answers for a key
Mode(key) == get_mode(prefs, User(key))
\* the table a new instance built on the file as it is would hold
Reloaded == _load(file, "ok")
Unusable == {"list", "scalar", "garbage", "truncated"}
\* the table with one entry put in
Put(p, key, mode) == [k \in DOMAIN p \cup {key} |-> IF k = key THEN mode ELSE p[k]]
\* the mode a call that reached the write was storing
NewMode(call) ==
    IF call.op = "toggle"
    THEN (IF call.before = DEFAULT_MODE THEN REAL_TIME ELSE DEFAULT_MODE)
    ELSE normalized[call.arg]

\* C1: a set_mode whose argument trims and lowercases to a valid mode does not
\* end in the invalid-mode error, and once it has returned, get_mode of that
\* user is the trimmed, lowercased argument.
C1_SetThenGet ==
    last.op = "set_mode" /\ lower(strip(last.arg)) \in VALID_MODES =>
        /\ last.raised # "ValueError"
        /\ last.raised = "" => Mode(last.key) = lower(strip(last.arg))

C1_Witness ==
    /\ last.op = "set_mode" /\ last.raised = ""
    /\ last.arg = Pad(MaxPad, 0) \o Cased("mixed", REAL_TIME) \o Pad(MaxPad, 1)
    /\ last.key \in loadedKeys
    /\ Mode(last.key) = REAL_TIME

\* C2: get_mode of a user that this instance neither loaded from the file nor
\* wrote with set_mode or toggle is "background", whatever was done for others.
C2_DefaultForUnset ==
    alive => \A u \in UserIds :
        str(u) \notin touched \cup loadedKeys => get_mode(prefs, u) = DEFAULT_MODE

C2_Witness ==
    /\ alive /\ touched # {} /\ loadedKeys # {}
    /\ \E u \in UserIds : /\ u.isInt
                           /\ str(u) \notin touched \cup loadedKeys
                           /\ get_mode(prefs, u) = DEFAULT_MODE
    /\ \E k \in touched : prefs[k] = REAL_TIME

\* C3: a set_mode whose argument does not trim and lowercase to a valid mode
\* raises the invalid-mode error and changes neither the table nor the file.
C3_InvalidLeavesAll ==
    [][last'.op = "set_mode" /\ normalized[last'.arg] \notin VALID_MODES =>
          /\ last'.raised = "ValueError"
          /\ prefs' = prefs
          /\ file' = file]_vars

C3_Witness ==
    /\ last.op = "set_mode" /\ last.raised = "ValueError"
    /\ last.key \in DOMAIN prefs
    /\ file.kind = "object" /\ file.members # {}

\* C4 as stated: after two toggles of a user in a row, get_mode of the user
\* is what it was before the first, in every reachable state.
C4_Original ==
    last.op = "toggle" /\ last.orig # NoString => Mode(last.key) = last.orig

\* C4: after two toggles of a user in a row, get_mode of the user is what it
\* was before the first, when that was "real-time" or "background".
C4_ToggleTwice ==
    last.op = "toggle" /\ last.orig \in VALID_MODES => Mode(last.key) = last.orig

C4_Witness ==
    /\ last.op = "toggle" /\ last.orig = REAL_TIME
    /\ last.key \in loadedKeys
    /\ Mode(last.key) = REAL_TIME

\* C5: while no write of the instance has failed since its last successful
\* one, a new instance built on the file answers get_mode as this one does.
C5_RoundTrip ==
    alive /\ ~writeFailed =>
        /\ Reloaded.raised = ""
        /\ \A u \in UserIds : get_mode(Reloaded.prefs, u) = get_mode(prefs, u)

C5_Witness ==
    /\ alive /\ ~writeFailed
    /\ last.op = "set_mode" /\ last.raised = ""
    /\ lower(strip(last.arg)) = REAL_TIME
    /\ last.key \notin loadedKeys
    /\ get_mode(Reloaded.prefs, User(last.key)) = REAL_TIME

\* C6 as stated: a constructor that finds a file it cannot use does not
\* raise and leaves an empty table, and the file stays as it was found until
\* a set_mode or toggle succeeds.
C6_Original ==
    /\ last.op = "__init__" /\ last.seen \in Unusable =>
          alive /\ last.raised = "" /\ prefs = EmptyDict
    /\ badLoad.set => file = badLoad.file

\* C6: a constructor that finds a file it cannot use does not raise and
\* leaves an empty table; the file stays as it was found until a set_mode or
\* toggle reaches the write, which overwrites it with the table when it
\* succeeds and leaves it as it was or truncated when it fails.
C6_UnusableFile ==
    /\ last.op = "__init__" /\ last.seen \in Unusable =>
          /\ alive /\ last.raised = "" /\ prefs = EmptyDict
          /\ \A u \in UserIds : get_mode(prefs, u) = DEFAULT_MODE
    /\ badLoad.set /\ badLoad.attempts = 0 =>
          file = badLoad.file /\ file.kind \in Unusable
    /\ badLoad.set /\ badLoad.attempts = 1 =>
          file \in {badLoad.file, TruncatedFile}
    /\ last.op \in {"set_mode", "toggle"} /\ last.raised = "" =>
          ~badLoad.set /\ file = ObjectFile(prefs)

C6_Witness ==
    /\ badLoad.set /\ badLoad.attempts = 0 /\ badLoad.file.kind = "list"
    /\ last.op = "get_mode" /\ last.value = DEFAULT_MODE
    /\ file = ListFile

\* C7: every entry of the table that set_mode or toggle wrote holds
\* "real-time" or "background".
C7_WrittenValuesValid ==
    \A k \in touched : k \in DOMAIN prefs /\ prefs[k] \in VALID_MODES

C7_Witness ==
    /\ last.op = "set_mode" /\ last.raised = "ValueError"
    /\ touched # {}
    /\ \E k \in DOMAIN prefs : k \notin touched /\ prefs[k] = STALE_MODE

\* C8: a toggle that returns gives the opposite of the mode get_mode reported
\* before it, and get_mode then reports the mode it gave; on a store built on
\* a missing file the first toggle of "42" gives "real-time" and a second one
\* right after it gives "background".
C8_ToggleReturns ==
    last.op = "toggle" /\ last.raised = "" =>
        /\ last.before = DEFAULT_MODE => last.value = REAL_TIME
        /\ last.before = REAL_TIME => last.value = DEFAULT_MODE
        /\ Mode(last.key) = last.value
        /\ last.key = str_int(42) /\ last.nth = 1 => last.value = REAL_TIME
        /\ last.key = str_int(42) /\ last.nth = 2 /\ last.orig # NoString =>
              last.value = DEFAULT_MODE

C8_Witness ==
    /\ last.op = "toggle" /\ last.raised = ""
    /\ last.key = str_int(42) /\ last.nth = 2 /\ last.orig = DEFAULT_MODE
    /\ last.value = DEFAULT_MODE

\* C9: a constructor that finds no file and returns leaves an empty table and
\* a file holding an empty mapping; a constructor that finds a file leaves
\* the file as it is.
C9_Construct ==
    [][last'.op = "__init__" =>
          IF file.kind = "absent"
          THEN last'.raised = "" =>
                  alive' /\ prefs' = EmptyDict /\ file' = ObjectFile(EmptyDict)
          ELSE file' = file]_vars

C9_Witness ==
    /\ last.op = "__init__" /\ last.seen = "absent" /\ last.raised = ""
    /\ alive /\ prefs = EmptyDict
    /\ file.kind = "object" /\ file.members = {}

\* C10 as stated: after a set_mode or toggle whose write failed, get_mode
\* gives the new mode and the file differs from the table, until a write
\* succeeds.
C10_Original ==
    /\ last.op \in {"set_mode", "toggle"} /\ last.raised = "OSError" =>
          Mode(last.key) = NewMode(last)
    /\ alive /\ writeFailed => file # ObjectFile(prefs)

\* C10: a set_mode or toggle whose write fails raises the I/O error and keeps
\* the update of the table, so get_mode gives the new mode; the file is left
\* as it was or truncated, so it differs from the table unless it already
\* held that table; a write that succeeds makes the file hold the table.
C10_WriteFailure ==
    [][/\ last'.op \in {"set_mode", "toggle"} /\ last'.raised = "OSError" =>
             /\ failedWrites' > 0
             /\ prefs' = Put(prefs, last'.key, NewMode(last'))
             /\ get_mode(prefs', User(last'.key)) = NewMode(last')
             /\ file' \in {file, TruncatedFile}
             /\ file' = ObjectFile(prefs') => file' = file
       /\ last'.op \in {"set_mode", "toggle"} /\ last'.raised = "" =>
             failedWrites' = 0 /\ file' = ObjectFile(prefs')]_vars

C10_Witness ==
    /\ last.op = "set_mode" /\ last.raised = "OSError" /\ writeFailed
    /\ Mode(last.key) = REAL_TIME
    /\ file.kind = "object" /\ file # ObjectFile(prefs)
====
